---- MODULE Spec2Model ----
(***************************************************************************)
(* CogniGraph backend: the language-model gateway (llm_client.py), the     *)
(* graph extractor (graph_agent.py), the retrieval index (rag_engine.py)   *)
(* and the session handlers (main.py).                                     *)
(*                                                                         *)
(* Text is a sequence of one-character strings wherever the code looks     *)
(* inside it (header values, wait estimates); node identifiers, relations  *)
(* and document names, which the code only compares, are strings.          *)
(***************************************************************************)
EXTENDS Integers, Sequences, FiniteSets, TLC

VARIABLES
    sessions,              \* main.py: keys of the sessions dict
    graph,                 \* per session: graph_agent.graph
    latest_uploaded_text,  \* per session: SessionData.latest_uploaded_text
    collection,            \* per session: rag_engine.collection (the id of the collection it holds)
    chroma,                \* the process-wide in-memory chromadb system: the collection named cognigraph_docs
    CACHED_RATE_LIMITS,    \* llm_client.py: the process-wide snapshot
    loop,                  \* the handler the event-loop thread is running (upload, chat)
    pool,                  \* per session: the thread-pool handler running (reset, get_graph)
    last,                  \* the response the latest step sent (NoResult: it sent none)
    llm,                   \* the gateway call under examination and its result
    chunker,               \* add_document's loop: text, start, chunks
    extraction             \* history, per session: the last extract_graph_from_text call

vars == <<sessions, graph, latest_uploaded_text, collection, chroma,
          CACHED_RATE_LIMITS, loop, pool, last, llm, chunker, extraction>>

---------------------------------------------------------------------------
(* Bounds of the model.                                                    *)

MaxTriples == 2        \* items in the model's triples list
MaxCalls == 2          \* gateway calls in a row
MaxTextLen == 2600     \* characters of a chunked text
MaxUploads == 2        \* collections the vector store creates after the first
MaxThreads == 1        \* pool threads busy at a time
MaxNodes == 2          \* nodes of a graph whose highlighting is computed

---------------------------------------------------------------------------
(* Text helpers.                                                           *)

Min(a, b) == IF a < b THEN a ELSE b

IsSpace(c) == c = " "

IsDigit(c) == c \in {"0", "1", "2", "3", "4", "5", "6", "7", "8", "9"}

DigitVal(c) ==
    CASE c = "0" -> 0 [] c = "1" -> 1 [] c = "2" -> 2 [] c = "3" -> 3
      [] c = "4" -> 4 [] c = "5" -> 5 [] c = "6" -> 6 [] c = "7" -> 7
      [] c = "8" -> 8 [] c = "9" -> 9

DigitChar(d) == <<"0", "1", "2", "3", "4", "5", "6", "7", "8", "9">>[d + 1]

RECURSIVE LStrip(_)
LStrip(t) == IF t /= <<>> /\ IsSpace(Head(t)) THEN LStrip(Tail(t)) ELSE t

RECURSIVE RStrip(_)
RStrip(t) ==
    IF t /= <<>> /\ IsSpace(t[Len(t)]) THEN RStrip(SubSeq(t, 1, Len(t) - 1)) ELSE t

\* str.strip()
Strip(t) == RStrip(LStrip(t))

\* str(n) for n >= 0
RECURSIVE Digits(_)
Digits(n) == IF n < 10 THEN <<DigitChar(n)>> ELSE Digits(n \div 10) \o <<DigitChar(n % 10)>>

RECURSIVE DigitsValue(_, _)
DigitsValue(t, acc) ==
    IF t = <<>> THEN acc ELSE DigitsValue(Tail(t), 10 * acc + DigitVal(Head(t)))

\* `sub in t`
Contains(sub, t) ==
    \E i \in 0..(Len(t) - Len(sub)) : SubSeq(t, i + 1, i + Len(sub)) = sub

---------------------------------------------------------------------------
(* llm_client.py: the gateway.                                             *)

Fields == {"limit_requests", "remaining_requests", "reset_requests",
           "limit_tokens", "remaining_tokens", "reset_tokens"}

\* The response header _update_rate_limits reads for each field.
HeaderOf(f) ==
    CASE f = "limit_requests" -> "x-ratelimit-limit-requests"
      [] f = "remaining_requests" -> "x-ratelimit-remaining-requests"
      [] f = "reset_requests" -> "x-ratelimit-reset-requests"
      [] f = "limit_tokens" -> "x-ratelimit-limit-tokens"
      [] f = "remaining_tokens" -> "x-ratelimit-remaining-tokens"
      [] f = "reset_tokens" -> "x-ratelimit-reset-tokens"

Unknown == <<"U", "n", "k", "n", "o", "w", "n">>

\* Python's None: a value no header text equals.
None == <<"None">>

InitialRateLimits ==
    [f \in Fields |-> IF f \in {"reset_requests", "reset_tokens"} THEN None ELSE Unknown]

\* headers.get(key, default)
HeaderGet(headers, key, default) ==
    IF key \in DOMAIN headers THEN headers[key] ELSE default

\* g(key): the header names are lower case already, so key.lower() is key.
g(headers, key) ==
    LET first == Strip(HeaderGet(headers, key, <<>>))
    IN  IF first /= <<>> THEN first ELSE Strip(HeaderGet(headers, key, <<>>))

\* A faulty variant, for comparison: the snapshot is rebuilt from the headers of each response.
UpdateRateLimitsFromScratch(cache, headers) ==
    [f \in Fields |->
        IF g(headers, HeaderOf(f)) /= <<>> THEN g(headers, HeaderOf(f))
        ELSE InitialRateLimits[f]]

UpdateRateLimits(cache, headers) ==
    [f \in Fields |->
        IF g(headers, HeaderOf(f)) /= <<>> THEN g(headers, HeaderOf(f)) ELSE cache[f]]

\* int(float(seconds)) for the texts float() takes here: digits, blanks around.
IsNumber(t) == Strip(t) /= <<>> /\ \A i \in 1..Len(Strip(t)) : IsDigit(Strip(t)[i])

NumberOf(t) == DigitsValue(Strip(t), 0)

format_time(seconds) ==
    IF IsNumber(seconds)
    THEN LET s == NumberOf(seconds)
         IN  IF s < 60 THEN Digits(s) \o <<"s">>
             ELSE IF s < 3600
                  THEN Digits(s \div 60) \o <<"m", " ">> \o Digits(s % 60) \o <<"s">>
                  ELSE Digits(s \div 3600) \o <<"h", " ">>
                       \o Digits((s % 3600) \div 60) \o <<"m">>
    ELSE seconds \o <<"s">>

\* A faulty variant, for comparison: the reset time is preferred to Retry-After.
WaitTimeSecondsResetFirst(headers) ==
    LET retry_after == HeaderGet(headers, "Retry-After", None)
        reset_time == HeaderGet(headers, "x-ratelimit-reset-requests", None)
    IN  IF reset_time /= None /\ reset_time /= <<>> THEN reset_time
        ELSE IF retry_after /= None /\ retry_after /= <<>> THEN retry_after
        ELSE Digits(0)

\* wait_time_seconds as the f-string prints it: a header's text, or 0.
WaitTimeSeconds(headers) ==
    LET retry_after == HeaderGet(headers, "Retry-After", None)
        reset_time == HeaderGet(headers, "x-ratelimit-reset-requests", None)
    IN  IF retry_after /= None /\ retry_after /= <<>> THEN retry_after
        ELSE IF reset_time /= None /\ reset_time /= <<>> THEN reset_time
        ELSE Digits(0)

NoError == [type |-> "none", status |-> 0, human |-> <<>>, raw |-> <<>>, digits |-> {}]

\* What query_llm raises. digits: which of "413", "429" occur in the message
\* besides what status, human and raw put there.
ErrorOf(call) ==
    IF ~call.key
    THEN [NoError EXCEPT !.type = "ValueError"]
    ELSE IF call.net = "fail"
    THEN [NoError EXCEPT !.type = "RequestException", !.digits = call.digits]
    ELSE IF call.status = 429
    THEN [NoError EXCEPT !.type = "RateLimit", !.status = 429,
                         !.human = format_time(WaitTimeSeconds(call.headers)),
                         !.raw = WaitTimeSeconds(call.headers)]
    ELSE IF call.status >= 400
    THEN [NoError EXCEPT !.type = "HTTPError", !.status = call.status]
    ELSE IF ~call.bodyok
    THEN [NoError EXCEPT !.type = "BadBody"]
    ELSE NoError

\* query_llm: the result and the snapshot it leaves. A call that got a
\* response updates the snapshot before anything is raised. The snapshot
\* returned is the live one. content is read only when nothing was raised.
QueryLLM(call, cache) ==
    LET got == call.key /\ call.net = "ok"
        after == IF got THEN UpdateRateLimits(cache, call.headers) ELSE cache
        err == ErrorOf(call)
    IN  [raised |-> err.type /= "none",
         error |-> err,
         content |-> call.content,
         cache |-> after]

---------------------------------------------------------------------------
(* graph_agent.py: the graph, as networkx.Graph keeps it. order is the     *)
(* nodes' insertion order, group each node's attribute, adj the label of   *)
(* the one edge an unordered pair {u, v} has.                              *)

NoGroup == -1

EmptyGraph == [order |-> <<>>, group |-> [n \in {} |-> 0], adj |-> [e \in {} |-> ""]]

Nodes(G) == DOMAIN G.group

\* Graph.add_node(n, group=grp): a node that exists has its attribute updated.
add_node(G, n, grp) ==
    [G EXCEPT !.order = IF n \in Nodes(G) THEN @ ELSE Append(@, n),
              !.group = [m \in Nodes(G) \cup {n} |-> IF m = n THEN grp ELSE G.group[m]]]

\* The nodes add_edge creates carry no attribute.
TouchNode(G, n) == IF n \in Nodes(G) THEN G ELSE add_node(G, n, NoGroup)

\* Graph.add_edge(u, v, label=lbl): an edge that exists has its label updated.
add_edge(G, u, v, lbl) ==
    LET H == TouchNode(TouchNode(G, u), v)
    IN  [H EXCEPT !.adj = [e \in DOMAIN H.adj \cup {{u, v}} |->
                              IF e = {u, v} THEN lbl ELSE H.adj[e]]]

\* Graph.clear()
ClearGraph(G) == EmptyGraph

Position(G, n) == CHOOSE i \in 1..Len(G.order) : G.order[i] = n

\* An item of the triples list: a JSON value. keys are the fields a record has.
TripleKeys == {"source", "target", "relation"}

Accepted(item) ==
    /\ item.isdict
    /\ TripleKeys \subseteq item.keys
    /\ item.source /= ""
    /\ item.target /= ""

\* One pass of the loop body, lines 94-104.
AddItem(G, item) ==
    IF ~Accepted(item) THEN G
    ELSE add_edge(
             add_edge(
                 add_node(add_node(G, item.source, 1), item.target, 1),
                 item.source, item.target, item.relation),
             "Document", item.source, "contains")

RECURSIVE AddItems(_, _)
AddItems(G, items) ==
    IF items = <<>> THEN G ELSE AddItems(AddItem(G, Head(items)), Tail(items))

\* Lines 89-104: temp_graph after the loop.
BuildGraph(triples) == AddItems(add_node(EmptyGraph, "Document", 0), triples)

\* The triple list extract_graph_from_text returns (line 107).
ReturnedTriples(triples) == triples

\* get_graph_data, line 118
GraphNodes(G) ==
    [i \in 1..Len(G.order) |->
        [id |-> G.order[i],
         group |-> IF G.group[G.order[i]] = NoGroup THEN 1 ELSE G.group[G.order[i]]]]

\* get_graph_data, line 119: each edge once, from its earlier-inserted end.
GraphLinks(G) ==
    {[source |-> u, target |-> v, label |-> G.adj[{u, v}]] :
        <<u, v>> \in {p \in Nodes(G) \X Nodes(G) :
                        /\ {p[1], p[2]} \in DOMAIN G.adj
                        /\ Position(G, p[1]) <= Position(G, p[2])}}

\* get_triples_as_text: the lines after the heading, one per edge.
TriplesAsText(G) ==
    IF DOMAIN G.adj = {} THEN {} ELSE {<<l.source, l.label, l.target>> : l \in GraphLinks(G)}

---------------------------------------------------------------------------
(* rag_engine.py: chunking. A text is its name and its length; a chunk is  *)
(* the slice text[lo:hi], with the id and source tag stored beside it.     *)

chunk_size == 1000

overlap == 200

\* text[start:end]: the slice stops at the end of the text.
Slice(text, start, end) ==
    [of |-> text.name, lo |-> Min(start, text.len), hi |-> Min(end, text.len)]

\* A faulty variant, for comparison: the window moves on by its whole length.
NextStartNoOverlap(start) == start + chunk_size

\* start += (chunk_size - overlap)
NextStart(start) == start + (chunk_size - overlap)

\* f"{doc_id}_{i}"
ChunkId(doc_id, i) == <<doc_id, "_", i>>

\* Lines 39-45: the records collection.add stores, in order.
StoredChunks(chunks, doc_id) ==
    [i \in 1..Len(chunks) |->
        [id |-> ChunkId(doc_id, i - 1), document |-> chunks[i], source |-> doc_id]]

\* Lines 32-37, the whole loop.
RECURSIVE ChunkLoop(_, _, _)
ChunkLoop(text, start, chunks) ==
    IF start < text.len
    THEN ChunkLoop(text, NextStart(start),
                   Append(chunks, Slice(text, start, start + chunk_size)))
    ELSE chunks

\* add_document(text, doc_id) on an empty collection
AddDocument(text, doc_id) == StoredChunks(ChunkLoop(text, 0, <<>>), doc_id)

---------------------------------------------------------------------------
(* The characters of the texts the handlers look inside.                   *)

Chars(x) ==
    CASE x = "" -> <<>>
      [] x = "Document" -> <<"D", "o", "c", "u", "m", "e", "n", "t">>
      [] x = "A" -> <<"A">>
      [] x = "B" -> <<"B">>
      [] x = "Acme Labs" -> <<"A", "c", "m", "e", " ", "L", "a", "b", "s">>
      [] x = "AI of Acme" -> <<"A", "I", " ", "o", "f", " ", "A", "c", "m", "e">>
      [] x = " Labs " -> <<" ", "L", "a", "b", "s", " ">>
      [] x = "R&D" -> <<"R", "&", "D">>
      [] x = "**" -> <<"*", "*">>
      [] x = "Rocket Fuel Co" -> <<"R", "o", "c", "k", "e", "t", " ", "F", "u", "e", "l", " ", "C", "o">>
      [] x = "AI of Acme is new." -> <<"A", "I", " ", "o", "f", " ", "A", "c", "m", "e", " ", "i", "s", " ", "n", "e", "w", ".">>
      [] x = "The document says Acme builds rockets." -> <<"T", "h", "e", " ", "d", "o", "c", "u", "m", "e", "n", "t", " ", "s", "a", "y", "s", " ", "A", "c", "m", "e", " ", "b", "u", "i", "l", "d", "s", " ", "r", "o", "c", "k", "e", "t", "s", ".">>
      [] x = "**Labs** are in B." -> <<"*", "*", "L", "a", "b", "s", "*", "*", " ", "a", "r", "e", " ", "i", "n", " ", "B", ".">>
      [] x = "The question or context is too long. GitHub Models Free Trial limits GPT-4o Mini to 8k tokens. Please try shortening your query." -> <<"T", "h", "e", " ", "q", "u", "e", "s", "t", "i", "o", "n", " ", "o", "r", " ", "c", "o", "n", "t", "e", "x", "t", " ", "i", "s", " ", "t", "o", "o", " ", "l", "o", "n", "g", ".", " ", "G", "i", "t", "H", "u", "b", " ", "M", "o", "d", "e", "l", "s", " ", "F", "r", "e", "e", " ", "T", "r", "i", "a", "l", " ", "l", "i", "m", "i", "t", "s", " ", "G", "P", "T", "-", "4", "o", " ", "M", "i", "n", "i", " ", "t", "o", " ", "8", "k", " ", "t", "o", "k", "e", "n", "s", ".", " ", "P", "l", "e", "a", "s", "e", " ", "t", "r", "y", " ", "s", "h", "o", "r", "t", "e", "n", "i", "n", "g", " ", "y", "o", "u", "r", " ", "q", "u", "e", "r", "y", ".">>
      [] x = "API Rate Limit reached. Please wait a moment and try again." -> <<"A", "P", "I", " ", "R", "a", "t", "e", " ", "L", "i", "m", "i", "t", " ", "r", "e", "a", "c", "h", "e", "d", ".", " ", "P", "l", "e", "a", "s", "e", " ", "w", "a", "i", "t", " ", "a", " ", "m", "o", "m", "e", "n", "t", " ", "a", "n", "d", " ", "t", "r", "y", " ", "a", "g", "a", "i", "n", ".">>
      [] x = "I encountered a technical issue while processing your request. Please try again." -> <<"I", " ", "e", "n", "c", "o", "u", "n", "t", "e", "r", "e", "d", " ", "a", " ", "t", "e", "c", "h", "n", "i", "c", "a", "l", " ", "i", "s", "s", "u", "e", " ", "w", "h", "i", "l", "e", " ", "p", "r", "o", "c", "e", "s", "s", "i", "n", "g", " ", "y", "o", "u", "r", " ", "r", "e", "q", "u", "e", "s", "t", ".", " ", "P", "l", "e", "a", "s", "e", " ", "t", "r", "y", " ", "a", "g", "a", "i", "n", ".">>

\* str.lower(), on the letters these texts use
LowerChar(c) ==
    CASE c = "A" -> "a"
      [] c = "B" -> "b"
      [] c = "C" -> "c"
      [] c = "D" -> "d"
      [] c = "E" -> "e"
      [] c = "F" -> "f"
      [] c = "G" -> "g"
      [] c = "H" -> "h"
      [] c = "I" -> "i"
      [] c = "J" -> "j"
      [] c = "K" -> "k"
      [] c = "L" -> "l"
      [] c = "M" -> "m"
      [] c = "N" -> "n"
      [] c = "O" -> "o"
      [] c = "P" -> "p"
      [] c = "Q" -> "q"
      [] c = "R" -> "r"
      [] c = "S" -> "s"
      [] c = "T" -> "t"
      [] c = "U" -> "u"
      [] c = "V" -> "v"
      [] c = "W" -> "w"
      [] c = "X" -> "x"
      [] c = "Y" -> "y"
      [] c = "Z" -> "z"
      [] OTHER -> c

\* str.isalnum()
IsAlnum(c) ==
    c \in {"a", "b", "c", "d", "e", "f", "g", "h", "i", "j", "k", "l", "m", "n", "o", "p", "q", "r", "s", "t", "u", "v", "w", "x", "y", "z", "A", "B", "C", "D", "E", "F", "G", "H", "I", "J", "K", "L", "M", "N", "O", "P", "Q", "R", "S", "T", "U", "V", "W", "X", "Y", "Z", "0", "1", "2", "3", "4", "5", "6", "7", "8", "9"}

Lower(t) == [i \in 1..Len(t) |-> LowerChar(t[i])]

\* main.py normalize_text: lower case, "**" and "*" removed, then only
\* letters, digits and blanks kept.
normalize_text(t) ==
    LET NotStar(c) == c /= "*"
        AlnumOrSpace(c) == IsAlnum(c) \/ IsSpace(c)
    IN  SelectSeq(SelectSeq(Lower(t), NotStar), AlnumOrSpace)

\* set(text.split()): the maximal runs of non-blank characters.
Tokens(t) ==
    {SubSeq(t, i, j) : <<i, j>> \in
        {p \in (1..Len(t)) \X (1..Len(t)) :
            /\ p[1] <= p[2]
            /\ \A k \in p[1]..p[2] : ~IsSpace(t[k])
            /\ (p[1] = 1 \/ IsSpace(t[p[1] - 1]))
            /\ (p[2] = Len(t) \/ IsSpace(t[p[2] + 1]))}}

---------------------------------------------------------------------------
(* main.py: node highlighting and the apology chat substitutes.            *)

\* A faulty variant, for comparison: tokens of any length count.
NodeMatchesAnyLength(node_id, response_text) ==
    LET clean_node == Strip(Lower(Chars(node_id)))
        clean_response == Lower(Chars(response_text))
        normalized_response == normalize_text(Chars(response_text))
        node_tokens == Tokens(normalize_text(Chars(node_id)))
        match_count == Cardinality({tok \in node_tokens :
                                       Contains(tok, normalized_response)})
    IN  \/ Len(clean_node) > 3 /\ Contains(clean_node, clean_response)
        \/ /\ node_tokens /= {}
           /\ 2 * match_count >= Cardinality(node_tokens)

\* Lines 273-297 for one node.
NodeMatches(node_id, response_text) ==
    LET clean_node == Strip(Lower(Chars(node_id)))
        clean_response == Lower(Chars(response_text))
        normalized_response == normalize_text(Chars(response_text))
        node_tokens == Tokens(normalize_text(Chars(node_id)))
        match_count == Cardinality({tok \in node_tokens :
                                       Len(tok) > 2 /\ Contains(tok, normalized_response)})
    IN  \/ Len(clean_node) > 3 /\ Contains(clean_node, clean_response)
        \/ /\ node_tokens /= {}
           /\ 2 * match_count >= Cardinality(node_tokens)

\* Lines 264-297: a graph with no node is falsy.
Highlighted(G, response_text) ==
    LET Match(n) == NodeMatches(n, response_text)
    IN  IF Nodes(G) = {} THEN <<>> ELSE SelectSeq(G.order, Match)

TooLong == "The question or context is too long. GitHub Models Free Trial limits GPT-4o Mini to 8k tokens. Please try shortening your query."

RateLimitReached == "API Rate Limit reached. Please wait a moment and try again."

TechnicalIssue == "I encountered a technical issue while processing your request. Please try again."

\* "413" in str(e): the status of an HTTPError, the wait of a rate-limit
\* error, or digits elsewhere in a transport error's text.
Has413(err) ==
    \/ err.type = "HTTPError" /\ err.status = 413
    \/ "413" \in err.digits
    \/ err.type = "RateLimit"
       /\ (Contains(<<"4", "1", "3">>, err.human) \/ Contains(<<"4", "1", "3">>, err.raw))

Has429(err) ==
    \/ err.type = "RateLimit"
    \/ "429" \in err.digits

\* Lines 253-261
Apology(err) ==
    IF Has413(err) THEN TooLong
    ELSE IF Has429(err) THEN RateLimitReached
    ELSE TechnicalIssue

\* upload_document, lines 183-188: the status of the HTTPException.
UploadErrorStatus(err) == IF err.type = "RateLimit" THEN 429 ELSE 500

---------------------------------------------------------------------------
(* The vector store. chromadb.Client() with default settings opens the     *)
(* one in-memory system of the process, so every RAGEngine names the same  *)
(* collection "cognigraph_docs". id 0: no collection exists yet.           *)

n_results == 3

NoCollection == [id |-> 0, docs |-> <<>>]

\* client.get_or_create_collection(name="cognigraph_docs")
GetOrCreate(store) == IF store.id = 0 THEN [id |-> 1, docs |-> <<>>] ELSE store

\* A faulty variant, for comparison: the new collection keeps the old chunks.
RagResetKeepsChunks(store) == [id |-> store.id + 1, docs |-> store.docs]

\* RAGEngine.reset: delete_collection, then get_or_create_collection; the
\* new collection has a new id.
RagReset(store) == [id |-> store.id + 1, docs |-> <<>>]

\* collection.add on the collection the engine holds
RagAdd(store, text, doc_id) == [store EXCEPT !.docs = @ \o AddDocument(text, doc_id)]

\* The engine's handle names a collection that still exists.
Live(store, handle) == handle /= 0 /\ handle = store.id

\* RAGEngine.query: the documents of the nearest chunks; the ranking is the
\* store's, here the order of insertion.
RagQuery(store) ==
    [i \in 1..Min(n_results, Len(store.docs)) |-> store.docs[i].document]

---------------------------------------------------------------------------
(* The state of the service.                                               *)

SessionIds == {"s1", "s2"}

\* The files uploaded: the file name is the document id, the text its content.
Docs == {"d1", "d2"}

TextOf(d) == [name |-> d, len |-> IF d = "d1" THEN 500 ELSE 1700]

NoText == [name |-> "", len |-> 0]

Triple(src, tgt, rel) ==
    [isdict |-> TRUE, keys |-> TripleKeys, source |-> src, target |-> tgt, relation |-> rel]

\* A record without one of the three fields.
Lacking(k) == [Triple("A", "B", "r") EXCEPT !.keys = TripleKeys \ {k}]

\* An item that is no record (a string, a number, a list).
NotARecord == [Triple("A", "B", "r") EXCEPT !.isdict = FALSE, !.keys = {}]

NoHeaders == [h \in {} |-> <<>>]

\* One gateway exchange: is MODEL_API_KEY set, did requests.post get a
\* response, its status and headers, is its body a completion, and the
\* completion's content.
Call(key, net, digits, status, headers, bodyok, content) ==
    [key |-> key, net |-> net, digits |-> digits, status |-> status,
     headers |-> headers, bodyok |-> bodyok, content |-> content]

NoContent == [parses |-> FALSE, triples |-> <<>>, answer |-> ""]

Triples(list) == [parses |-> TRUE, triples |-> list, answer |-> ""]

Answer(text) == [parses |-> FALSE, triples |-> <<>>, answer |-> text]

\* The failures of a gateway call.
FailedCalls ==
    {Call(FALSE, "ok", {}, 0, NoHeaders, FALSE, NoContent),
     Call(TRUE, "fail", {}, 0, NoHeaders, FALSE, NoContent),
     Call(TRUE, "ok", {}, 429, [h \in {"Retry-After"} |-> <<"3", "0">>], FALSE, NoContent),
     Call(TRUE, "ok", {}, 500, NoHeaders, FALSE, NoContent),
     Call(TRUE, "ok", {}, 413, NoHeaders, FALSE, NoContent)}

OkHeaders == [h \in {"x-ratelimit-remaining-requests"} |-> <<"7">>]

OkCall(content) == Call(TRUE, "ok", {}, 200, OkHeaders, TRUE, content)

\* What the model answers an extraction prompt with.
ExtractionLists ==
    {<<>>,
     <<Triple("A", "B", "r")>>,
     <<Triple("Document", "Acme Labs", "has"), Lacking("target"), Triple("Acme Labs", "B", "in")>>}

ExtractionCalls ==
    FailedCalls \cup {OkCall(NoContent)} \cup {OkCall(Triples(l)) : l \in ExtractionLists}

ChatAnswers == {"The document says Acme builds rockets.", "**Labs** are in B."}

ChatCalls == FailedCalls \cup {OkCall(Answer(a)) : a \in ChatAnswers}

IdleLoop ==
    [kind |-> "idle", s |-> "", pc |-> "", temp |-> EmptyGraph, rest |-> <<>>,
     all |-> <<>>, sources |-> <<>>, context |-> {}, nodes |-> <<>>]

\* A pool thread with nothing to run.
IdlePool == [op |-> "idle", pc |-> "", nodes |-> <<>>]

\* rate_limits = {}
NoRateLimits == [f \in {} |-> <<>>]

NoResult ==
    [op |-> "none", s |-> "", status |-> 0, nodes |-> <<>>, links |-> {},
     response |-> "", highlighted_nodes |-> <<>>, rate_limits |-> NoRateLimits,
     sources |-> <<>>, triples |-> <<>>, failed |-> FALSE]

NoCall == [call |-> Call(FALSE, "ok", {}, 0, NoHeaders, FALSE, NoContent),
           result |-> QueryLLM(Call(FALSE, "ok", {}, 0, NoHeaders, FALSE, NoContent),
                               InitialRateLimits),
           calls |-> 0]

IdleChunker ==
    [pc |-> "off", text |-> NoText, doc_id |-> "", start |-> 0, chunks |-> <<>>,
     stored |-> <<>>, first |-> <<>>, run |-> 0]

\* The state after the module is imported: no session, no collection.
Init ==
    /\ sessions = {}
    /\ graph = [s \in SessionIds |-> EmptyGraph]
    /\ latest_uploaded_text = [s \in SessionIds |-> NoText]
    /\ collection = [s \in SessionIds |-> 0]
    /\ chroma = NoCollection
    /\ CACHED_RATE_LIMITS = InitialRateLimits
    /\ loop = IdleLoop
    /\ pool = [s \in SessionIds |-> IdlePool]
    /\ last = NoResult
    /\ extraction = [s \in SessionIds |-> [state |-> "none", triples |-> <<>>]]
    /\ llm = NoCall
    /\ chunker = IdleChunker

\* get_current_session: a new id gets a SessionData, whose RAGEngine takes
\* the store's collection.
StoreWith(s) == IF s \in sessions THEN chroma ELSE GetOrCreate(chroma)

HandleWith(s) == IF s \in sessions THEN collection[s] ELSE GetOrCreate(chroma).id

---------------------------------------------------------------------------
(* The handlers. upload and chat are coroutines that never await once      *)
(* they have their input, so the event-loop thread runs one of them at a   *)
(* time, gateway call included (loop). reset and get_graph are plain       *)
(* functions: the event loop hands each to a pool thread (pool), which     *)
(* runs it while the loop is busy or idle. get_graph_data reads self.graph *)
(* once for its nodes and again for its links: two steps, between which    *)
(* the other thread may run.                                               *)

Enter(s) ==
    /\ sessions' = sessions \cup {s}
    /\ collection' = [collection EXCEPT ![s] = HandleWith(s)]
    /\ chroma' = StoreWith(s)

\* upload_document, lines 98-159: no text could be read from the file.
UploadRejected(s) ==
    /\ loop.kind = "idle"
    /\ Enter(s)
    /\ last' = [NoResult EXCEPT !.op = "upload", !.s = s, !.status = 400]
    /\ UNCHANGED <<graph, latest_uploaded_text, CACHED_RATE_LIMITS, loop, pool,
                   llm, chunker, extraction>>

\* upload_document, lines 162-174: keep the text, reset the index, index it.
UploadStart(s, d) ==
    /\ loop.kind = "idle"
    /\ StoreWith(s).id <= MaxUploads
    /\ sessions' = sessions \cup {s}
    /\ latest_uploaded_text' = [latest_uploaded_text EXCEPT ![s] = TextOf(d)]
    /\ chroma' = RagAdd(RagReset(StoreWith(s)), TextOf(d), d)
    /\ collection' = [collection EXCEPT ![s] = chroma'.id]
    /\ loop' = [IdleLoop EXCEPT !.kind = "upload", !.s = s, !.pc = "clear"]
    /\ last' = NoResult
    /\ UNCHANGED <<graph, CACHED_RATE_LIMITS, pool, llm, chunker, extraction>>

\* extract_graph_from_text, line 14
UploadClear ==
    /\ loop.kind = "upload" /\ loop.pc = "clear"
    /\ graph' = [graph EXCEPT ![loop.s] = ClearGraph(@)]
    /\ extraction' = [extraction EXCEPT ![loop.s] = [state |-> "running", triples |-> <<>>]]
    /\ loop' = [loop EXCEPT !.pc = "llm"]
    /\ last' = NoResult
    /\ UNCHANGED <<sessions, latest_uploaded_text, collection, chroma,
                   CACHED_RATE_LIMITS, pool, llm, chunker>>

\* extract_graph_from_text, lines 59-91, and upload_document's lines 183-188
\* when it raises.
UploadLLM(call) ==
    /\ loop.kind = "upload" /\ loop.pc = "llm"
    /\ LET res == QueryLLM(call, CACHED_RATE_LIMITS)
           failed == res.raised \/ ~res.content.parses
           err == IF res.raised THEN res.error
                  ELSE [NoError EXCEPT !.type = "MalformedResponse"]
       IN  /\ CACHED_RATE_LIMITS' = res.cache
           /\ IF failed
              THEN /\ loop' = IdleLoop
                   /\ last' = [NoResult EXCEPT !.op = "upload", !.s = loop.s,
                                               !.status = UploadErrorStatus(err)]
                   /\ extraction' = [extraction EXCEPT ![loop.s].state = "failed"]
              ELSE IF res.content.triples = <<>>
              THEN /\ loop' = [loop EXCEPT !.pc = "respond"]
                   /\ last' = NoResult
                   /\ extraction' = [extraction EXCEPT ![loop.s].state = "empty"]
              ELSE /\ loop' = [loop EXCEPT !.pc = "build", !.temp = BuildGraph(<<>>),
                                           !.rest = res.content.triples,
                                           !.all = res.content.triples]
                   /\ last' = NoResult
                   /\ extraction' = extraction
    /\ UNCHANGED <<sessions, graph, latest_uploaded_text, collection, chroma,
                   pool, llm, chunker>>

\* extract_graph_from_text, lines 93-104: one item of the loop.
UploadBuildItem ==
    /\ loop.kind = "upload" /\ loop.pc = "build" /\ loop.rest /= <<>>
    /\ loop' = [loop EXCEPT !.temp = AddItem(@, Head(loop.rest)), !.rest = Tail(@)]
    /\ last' = NoResult
    /\ UNCHANGED <<sessions, graph, latest_uploaded_text, collection, chroma,
                   CACHED_RATE_LIMITS, pool, llm, chunker, extraction>>

\* extract_graph_from_text, lines 106-107
UploadAssign ==
    /\ loop.kind = "upload" /\ loop.pc = "build" /\ loop.rest = <<>>
    /\ graph' = [graph EXCEPT ![loop.s] = loop.temp]
    /\ extraction' = [extraction EXCEPT ![loop.s] = [state |-> "finished", triples |-> loop.all]]
    /\ loop' = [loop EXCEPT !.pc = "respond", !.temp = EmptyGraph]
    /\ last' = NoResult
    /\ UNCHANGED <<sessions, latest_uploaded_text, collection, chroma,
                   CACHED_RATE_LIMITS, pool, llm, chunker>>

\* get_graph_data, line 117, called from upload_document's line 195
UploadNodes ==
    /\ loop.kind = "upload" /\ loop.pc = "respond"
    /\ loop' = [loop EXCEPT !.pc = "links", !.nodes = GraphNodes(graph[loop.s])]
    /\ last' = NoResult
    /\ UNCHANGED <<sessions, graph, latest_uploaded_text, collection, chroma,
                   CACHED_RATE_LIMITS, pool, llm, chunker, extraction>>

\* get_graph_data, lines 118-119, and upload_document's line 196. triples:
\* what extract_graph_from_text returned to it.
UploadRespond ==
    /\ loop.kind = "upload" /\ loop.pc = "links"
    /\ last' = [NoResult EXCEPT !.op = "upload", !.s = loop.s, !.status = 200,
                                !.nodes = loop.nodes,
                                !.links = GraphLinks(graph[loop.s]),
                                !.triples = ReturnedTriples(loop.all)]
    /\ loop' = IdleLoop
    /\ UNCHANGED <<sessions, graph, latest_uploaded_text, collection, chroma,
                   CACHED_RATE_LIMITS, pool, llm, chunker, extraction>>

\* A /reset or /graph request: the loop resolves the session and hands the
\* function to a pool thread.
Dispatch(s, op) ==
    /\ loop.kind = "idle"
    /\ pool[s] = IdlePool
    /\ Cardinality({t \in SessionIds : pool[t] /= IdlePool}) < MaxThreads
    /\ Enter(s)
    /\ pool' = [pool EXCEPT ![s] = [IdlePool EXCEPT !.op = op,
                     !.pc = IF op = "reset" THEN "clear" ELSE "nodes"]]
    /\ last' = NoResult
    /\ UNCHANGED <<graph, latest_uploaded_text, CACHED_RATE_LIMITS, loop, llm,
                   chunker, extraction>>

\* A faulty variant, for comparison: reset also resets the retrieval index.
ResetSessionWithIndex(s) ==
    /\ pool[s].op = "reset" /\ pool[s].pc = "clear"
    /\ latest_uploaded_text' = [latest_uploaded_text EXCEPT ![s] = NoText]
    /\ graph' = [graph EXCEPT ![s] = ClearGraph(@)]
    /\ chroma' = RagReset(chroma)
    /\ collection' = [collection EXCEPT ![s] = chroma'.id]
    /\ pool' = [pool EXCEPT ![s].pc = "nodes"]
    /\ last' = NoResult
    /\ UNCHANGED <<sessions, CACHED_RATE_LIMITS, loop, llm, chunker, extraction>>

\* reset_session, lines 205-209
ResetSession(s) ==
    /\ pool[s].op = "reset" /\ pool[s].pc = "clear"
    /\ latest_uploaded_text' = [latest_uploaded_text EXCEPT ![s] = NoText]
    /\ graph' = [graph EXCEPT ![s] = ClearGraph(@)]
    /\ pool' = [pool EXCEPT ![s].pc = "nodes"]
    /\ last' = NoResult
    /\ UNCHANGED <<sessions, collection, chroma, CACHED_RATE_LIMITS, loop, llm,
                   chunker, extraction>>

\* get_graph_data, line 117, called from reset_session or get_graph
GetGraphNodes(s) ==
    /\ pool[s].pc = "nodes"
    /\ pool' = [pool EXCEPT ![s].pc = "links", ![s].nodes = GraphNodes(graph[s])]
    /\ last' = NoResult
    /\ UNCHANGED <<sessions, graph, latest_uploaded_text, collection, chroma,
                   CACHED_RATE_LIMITS, loop, llm, chunker, extraction>>

\* get_graph_data, lines 118-119, and the handler's return (lines 210, 217)
GetGraph(s) ==
    /\ pool[s].pc = "links"
    /\ last' = [NoResult EXCEPT !.op = pool[s].op, !.s = s, !.status = 200,
                                !.nodes = pool[s].nodes,
                                !.links = GraphLinks(graph[s])]
    /\ pool' = [pool EXCEPT ![s] = IdlePool]
    /\ UNCHANGED <<sessions, graph, latest_uploaded_text, collection, chroma,
                   CACHED_RATE_LIMITS, loop, llm, chunker, extraction>>

\* chat, lines 225-230. The query of a collection that was deleted raises,
\* and nothing in chat catches it.
ChatStart(s) ==
    /\ loop.kind = "idle"
    /\ Enter(s)
    /\ IF Live(StoreWith(s), HandleWith(s))
       THEN /\ loop' = [IdleLoop EXCEPT !.kind = "chat", !.s = s, !.pc = "llm",
                                        !.sources = RagQuery(StoreWith(s)),
                                        !.context = TriplesAsText(graph[s])]
            /\ last' = NoResult
       ELSE /\ loop' = IdleLoop
            /\ last' = [NoResult EXCEPT !.op = "chat", !.s = s, !.status = 500]
    /\ UNCHANGED <<graph, latest_uploaded_text, CACHED_RATE_LIMITS, pool, llm,
                   chunker, extraction>>

\* chat, lines 245-304
ChatFinish(call) ==
    /\ loop.kind = "chat" /\ loop.pc = "llm"
    /\ LET res == QueryLLM(call, CACHED_RATE_LIMITS)
           response_text == IF res.raised THEN Apology(res.error) ELSE res.content.answer
       IN  /\ CACHED_RATE_LIMITS' = res.cache
           /\ last' = [NoResult EXCEPT
                          !.op = "chat", !.s = loop.s, !.status = 200,
                          !.failed = res.raised,
                          !.response = response_text,
                          !.sources = loop.sources,
                          !.highlighted_nodes = Highlighted(graph[loop.s], response_text),
                          !.rate_limits = IF res.raised THEN NoRateLimits ELSE res.cache]
    /\ loop' = IdleLoop
    /\ UNCHANGED <<sessions, graph, latest_uploaded_text, collection, chroma,
                   pool, llm, chunker, extraction>>

Next ==
    \/ \E s \in SessionIds : UploadRejected(s)
    \/ \E s \in SessionIds, d \in Docs : UploadStart(s, d)
    \/ UploadClear
    \/ \E call \in ExtractionCalls : UploadLLM(call)
    \/ UploadBuildItem
    \/ UploadAssign
    \/ UploadNodes
    \/ UploadRespond
    \/ \E s \in SessionIds, op \in {"reset", "graph"} : Dispatch(s, op)
    \/ \E s \in SessionIds : ResetSession(s)
    \/ \E s \in SessionIds : GetGraphNodes(s)
    \/ \E s \in SessionIds : GetGraph(s)
    \/ \E s \in SessionIds : ChatStart(s)
    \/ \E call \in ChatCalls : ChatFinish(call)

Spec == Init /\ [][Next]_vars

---------------------------------------------------------------------------
(* extract_graph_from_text on any short triples list: one session, its     *)
(* upload at the gateway call.                                             *)

GraphValues == {"", "Document", "A", "B"}

GraphRelations == {"r", "q"}

GraphItems ==
    {NotARecord} \cup {Lacking(k) : k \in TripleKeys}
    \cup {Triple(src, tgt, rel) : src \in GraphValues, tgt \in GraphValues,
                                  rel \in GraphRelations}

GraphLists == UNION {[1..n -> GraphItems] : n \in 0..MaxTriples}

GraphCalls == FailedCalls \cup {OkCall(NoContent)} \cup {OkCall(Triples(l)) : l \in GraphLists}

InitGraph ==
    /\ sessions = {"s1"}
    /\ graph = [s \in SessionIds |-> EmptyGraph]
    /\ latest_uploaded_text = [s \in SessionIds |-> IF s = "s1" THEN TextOf("d1") ELSE NoText]
    /\ chroma = RagAdd(RagReset(GetOrCreate(NoCollection)), TextOf("d1"), "d1")
    /\ collection = [s \in SessionIds |-> IF s = "s1" THEN chroma.id ELSE 0]
    /\ CACHED_RATE_LIMITS = InitialRateLimits
    /\ loop = [IdleLoop EXCEPT !.kind = "upload", !.s = "s1", !.pc = "llm"]
    /\ pool = [s \in SessionIds |-> IdlePool]
    /\ last = NoResult
    /\ extraction = [s \in SessionIds |->
                        [state |-> IF s = "s1" THEN "running" ELSE "none", triples |-> <<>>]]
    /\ llm = NoCall
    /\ chunker = IdleChunker

AtGateway == loop.kind /= "idle" /\ loop.pc = "llm"

NextGraph ==
    \/ AtGateway /\ \E call \in GraphCalls : UploadLLM(call)
    \/ UploadBuildItem
    \/ UploadAssign
    \/ UploadNodes
    \/ UploadRespond

SpecGraph == InitGraph /\ [][NextGraph]_vars

---------------------------------------------------------------------------
(* query_llm, call after call.                                             *)

RateHeaders == {HeaderOf(f) : f \in Fields}

\* Header texts as http.client hands them over: blanks may trail.
RateValues == {<<>>, <<"7", " ">>, <<"1", "2", "5">>}

RetryValues == {<<>>, <<"3", "0">>, <<"5", "9">>, <<"6", "0">>, <<"3", "5", "9", "9">>,
                <<"3", "7", "2", "5">>, <<"s", "o", "o", "n">>}

\* The rate-limit headers of a response: none, one, or all six.
RateHeaderSets ==
    {[h \in H |-> v] : H \in {{}, RateHeaders} \cup {{h} : h \in RateHeaders},
                       v \in RateValues}

WithRetry(headers, v) ==
    [h \in DOMAIN headers \cup {"Retry-After"} |->
        IF h = "Retry-After" THEN v ELSE headers[h]]

\* The headers of a 429: Retry-After beside no reset header or one.
RetryHeaderSets ==
    RateHeaderSets
    \cup {WithRetry(hs, v) :
            hs \in {x \in RateHeaderSets : DOMAIN x \subseteq {"x-ratelimit-reset-requests"}},
            v \in RetryValues}

GatewayCalls ==
    {Call(FALSE, "ok", {}, 0, NoHeaders, FALSE, NoContent)}
    \cup {Call(TRUE, "fail", dg, 0, NoHeaders, FALSE, NoContent) : dg \in {{}, {"413"}, {"429"}}}
    \cup {Call(TRUE, "ok", {}, 200, hs, TRUE, Answer("**Labs** are in B.")) : hs \in RateHeaderSets}
    \cup {Call(TRUE, "ok", {}, 200, NoHeaders, FALSE, NoContent)}
    \cup {Call(TRUE, "ok", {}, 500, hs, FALSE, NoContent) : hs \in RateHeaderSets}
    \cup {Call(TRUE, "ok", {}, 429, hs, FALSE, NoContent) : hs \in RetryHeaderSets}

\* One call of query_llm.
GatewayCall(call) ==
    /\ llm.calls < MaxCalls
    /\ llm' = [call |-> call, result |-> QueryLLM(call, CACHED_RATE_LIMITS),
               calls |-> llm.calls + 1]
    /\ CACHED_RATE_LIMITS' = QueryLLM(call, CACHED_RATE_LIMITS).cache
    /\ UNCHANGED <<sessions, graph, latest_uploaded_text, collection, chroma,
                   loop, pool, last, chunker, extraction>>

NextLLM == \E call \in GatewayCalls : GatewayCall(call)

SpecLLM == Init /\ [][NextLLM]_vars

---------------------------------------------------------------------------
(* add_document on a text of any length up to MaxTextLen, then reset and   *)
(* add_document again.                                                     *)

InitChunk ==
    /\ sessions = {}
    /\ graph = [s \in SessionIds |-> EmptyGraph]
    /\ latest_uploaded_text = [s \in SessionIds |-> NoText]
    /\ collection = [s \in SessionIds |-> 0]
    /\ chroma = NoCollection
    /\ CACHED_RATE_LIMITS = InitialRateLimits
    /\ loop = IdleLoop
    /\ pool = [s \in SessionIds |-> IdlePool]
    /\ last = NoResult
    /\ extraction = [s \in SessionIds |-> [state |-> "none", triples |-> <<>>]]
    /\ llm = NoCall
    /\ \E len \in 1..MaxTextLen :
          chunker = [IdleChunker EXCEPT !.pc = "loop", !.text = [name |-> "t", len |-> len],
                                        !.doc_id = "doc", !.run = 1]

Others ==
    <<sessions, graph, latest_uploaded_text, collection, chroma,
      CACHED_RATE_LIMITS, loop, pool, last, llm, extraction>>

\* Lines 34-37: one turn of the loop.
ChunkStep ==
    /\ chunker.pc = "loop"
    /\ chunker.start < chunker.text.len
    /\ chunker' = [chunker EXCEPT
                      !.chunks = Append(@, Slice(chunker.text, chunker.start,
                                                 chunker.start + chunk_size)),
                      !.start = NextStart(@)]
    /\ UNCHANGED Others

\* Lines 39-45: the loop is over, the chunks are stored.
ChunkStore ==
    /\ chunker.pc = "loop"
    /\ ~(chunker.start < chunker.text.len)
    /\ chunker' = [chunker EXCEPT
                      !.stored = @ \o StoredChunks(chunker.chunks, chunker.doc_id),
                      !.pc = "done"]
    /\ UNCHANGED Others

\* RAGEngine.reset, then add_document with the same text and id.
ChunkAgain ==
    /\ chunker.pc = "done"
    /\ chunker.run = 1
    /\ chunker' = [chunker EXCEPT !.first = chunker.stored, !.stored = <<>>,
                                  !.chunks = <<>>, !.start = 0, !.run = 2, !.pc = "loop"]
    /\ UNCHANGED Others

NextChunk == ChunkStep \/ ChunkStore \/ ChunkAgain

SpecChunk == InitChunk /\ [][NextChunk]_vars

---------------------------------------------------------------------------
(* Claims about the assembled graph (SpecGraph).                           *)

\* The extraction of session s ran to line 106 and its graph is still held.
Assembled(s) == extraction[s].state = "finished" /\ graph[s] /= EmptyGraph

AcceptedItems(triples) == {triples[i] : i \in {j \in 1..Len(triples) : Accepted(triples[j])}}

\* C2: after extract_graph_from_text assembled a graph, the node "Document"
\* exists with group 0 and every other node has group 1, whatever the
\* triples' sources and targets are.
C2_SingleRootGroupZero ==
    \A s \in SessionIds :
        Assembled(s) =>
            /\ "Document" \in Nodes(graph[s])
            /\ graph[s].group["Document"] = 0
            /\ \A n \in Nodes(graph[s]) \ {"Document"} : graph[s].group[n] = 1

\* C3: after extract_graph_from_text assembled a graph, every accepted
\* triple's source is joined to "Document" by an edge labelled "contains".
C3_ContainsEdgeForEverySource ==
    \A s \in SessionIds :
        Assembled(s) =>
            \A item \in AcceptedItems(extraction[s].triples) :
                /\ {"Document", item.source} \in DOMAIN graph[s].adj
                /\ graph[s].adj[{"Document", item.source}] = "contains"

HasLink(G, u, v, lbl) ==
    /\ \E l \in GraphLinks(G) : {l.source, l.target} = {u, v} /\ l.label = lbl
    /\ \E t \in TriplesAsText(G) : {t[1], t[3]} = {u, v} /\ t[2] = lbl

\* C4: edges between the same two nodes with different labels are kept
\* apart: every accepted triple's relation, and the "contains" of its
\* source, are labels of links in get_graph_data and get_triples_as_text.
C4_LabelsKeptDistinct ==
    \A s \in SessionIds :
        Assembled(s) =>
            \A item \in AcceptedItems(extraction[s].triples) :
                /\ HasLink(graph[s], item.source, item.target, item.relation)
                /\ HasLink(graph[s], "Document", item.source, "contains")

\* C5: items that are no record, lack a field or have an empty source or
\* target are left out of the graph and out of the triple list
\* extract_graph_from_text returns, and never make the extraction fail.
C5_MalformedItemsExcluded ==
    /\ (last.op = "upload" /\ last.status = 200) =>
           \A i \in 1..Len(last.triples) : Accepted(last.triples[i])
    /\ \A s \in SessionIds :
           Assembled(s) =>
               \A n \in Nodes(graph[s]) \ {"Document"} :
                   \E item \in AcceptedItems(extraction[s].triples) :
                       n \in {item.source, item.target}

---------------------------------------------------------------------------
(* Claims about the gateway (SpecLLM).                                     *)

Responded(call) == call.key /\ call.net = "ok"

\* The value of a field's header: its text without the blanks around it
\* (which are no part of an HTTP field value), empty when it is absent.
HeaderValue(call, f) ==
    IF HeaderOf(f) \in DOMAIN call.headers THEN Strip(call.headers[HeaderOf(f)]) ELSE <<>>

\* C8: after each HTTP response every field of the snapshot equals the
\* value of its header when the header is present and non-empty, and
\* otherwise keeps its value; a call that gets no response changes no
\* field; a field that has left its default never returns to it.
C8_SnapshotMergesHeaders ==
    [][\A f \in Fields :
          /\ CACHED_RATE_LIMITS'[f] =
                IF Responded(llm'.call) /\ HeaderValue(llm'.call, f) /= <<>>
                THEN HeaderValue(llm'.call, f)
                ELSE CACHED_RATE_LIMITS[f]
          /\ CACHED_RATE_LIMITS[f] /= InitialRateLimits[f]
                => CACHED_RATE_LIMITS'[f] /= InitialRateLimits[f]]_vars

\* Witness of C8: a second response without the limit-requests header left
\* the value an earlier response gave that field, and set another field.
C8_Witness ==
    /\ llm.calls = 2
    /\ Responded(llm.call)
    /\ "x-ratelimit-limit-requests" \notin DOMAIN llm.call.headers
    /\ CACHED_RATE_LIMITS["limit_requests"] = <<"7">>
    /\ CACHED_RATE_LIMITS["limit_tokens"] = <<"1", "2", "5">>

\* A header that came with a value.
Present(call, h) == h \in DOMAIN call.headers /\ call.headers[h] /= <<>>

ExpectedWait(call) ==
    IF Present(call, "Retry-After") THEN call.headers["Retry-After"]
    ELSE IF Present(call, "x-ratelimit-reset-requests")
         THEN call.headers["x-ratelimit-reset-requests"]
         ELSE <<"0">>

\* C9: on HTTP 429 query_llm raises the rate-limit error; its raw wait is
\* Retry-After if present, else x-ratelimit-reset-requests if present,
\* else 0; a wait of s seconds reads "{s}s" below 60 and
\* "{s div 60}m {s mod 60}s" from 60 to 3599 (30 -> "30s", 125 -> "2m 5s",
\* none -> "0s"); the error carries both.
C9_RateLimitWait ==
    (Responded(llm.call) /\ llm.call.status = 429) =>
        LET err == llm.result.error
            raw == ExpectedWait(llm.call)
            sec == NumberOf(raw)
        IN  /\ llm.result.raised
            /\ err.type = "RateLimit"
            /\ err.raw = raw
            /\ (IsNumber(raw) /\ sec < 60) => err.human = Digits(sec) \o <<"s">>
            /\ (IsNumber(raw) /\ sec >= 60 /\ sec < 3600) =>
                   err.human = Digits(sec \div 60) \o <<"m", " ">> \o Digits(sec % 60) \o <<"s">>
            /\ raw = <<"3", "0">> => err.human = <<"3", "0", "s">>
            /\ raw = <<"1", "2", "5">> => err.human = <<"2", "m", " ", "5", "s">>
            /\ raw = <<"0">> => err.human = <<"0", "s">>

\* Witness of C9: a 429 with no Retry-After and a reset time of 125.
C9_Witness ==
    /\ Responded(llm.call) /\ llm.call.status = 429
    /\ "Retry-After" \notin DOMAIN llm.call.headers
    /\ llm.result.error.raw = <<"1", "2", "5">>
    /\ llm.result.error.human = <<"2", "m", " ", "5", "s">>

---------------------------------------------------------------------------
(* Claims about chunking (SpecChunk).                                      *)

\* The chunks of a text of length L under document id d: text[800i :
\* min(800i + 1000, L)] for every i >= 0 with 800i < L.
ExpectedChunks(text, d) ==
    [i \in 1..((text.len + 799) \div 800) |->
        [id |-> <<d, "_", i - 1>>,
         document |-> [of |-> text.name, lo |-> 800 * (i - 1),
                       hi |-> Min(800 * (i - 1) + 1000, text.len)],
         source |-> d]]

\* C10: add_document stores exactly the chunks text[800i : min(800i + 1000,
\* L)], 800i < L, in order, with ids "{doc_id}_{i}" and source doc_id; the
\* loop's start grows by 800 a turn and stays below L + 800, so it ends;
\* after reset the same text and id give the same chunks.
C10_ChunkBoundaries ==
    /\ chunker.pc = "done" =>
           /\ chunker.stored = ExpectedChunks(chunker.text, chunker.doc_id)
           /\ chunker.run = 2 => chunker.stored = chunker.first
    /\ chunker.pc = "loop" =>
           /\ chunker.start = 800 * Len(chunker.chunks)
           /\ chunker.start < chunker.text.len + 800

\* Witness of C10: a text of 2401 characters, indexed a second time: four
\* chunks, the last of one character.
C10_Witness ==
    /\ chunker.pc = "done" /\ chunker.run = 2
    /\ chunker.text.len = 2401
    /\ Len(chunker.stored) = 4
    /\ chunker.stored[4].document.lo = 2400 /\ chunker.stored[4].document.hi = 2401

---------------------------------------------------------------------------
(* Claims about sessions (Spec).                                           *)

\* What a session's retrieval index holds and returns: the chunks of the
\* collection its engine holds, if that collection still exists.
IndexOf(b) ==
    [live |-> Live(chroma, collection[b]),
     chunks |-> IF Live(chroma, collection[b]) THEN chroma.docs ELSE <<>>]

\* The step belongs to a request made on session a.
RequestOn(a) ==
    \/ UploadRejected(a)
    \/ \E d \in Docs : UploadStart(a, d)
    \/ loop.s = a /\ (UploadClear \/ UploadBuildItem \/ UploadAssign \/ UploadNodes
                      \/ UploadRespond)
    \/ loop.s = a /\ \E call \in ExtractionCalls : UploadLLM(call)
    \/ \E op \in {"reset", "graph"} : Dispatch(a, op)
    \/ ResetSession(a) \/ GetGraphNodes(a) \/ GetGraph(a)
    \/ ChatStart(a)
    \/ loop.s = a /\ \E call \in ChatCalls : ChatFinish(call)

\* C1: a step of a request made on session a changes neither the graph of
\* another session b nor the chunks that b's retrieval index holds and
\* returns.
C1_SessionsIsolated ==
    [][\A a \in SessionIds : \A b \in sessions \ {a} :
          RequestOn(a) => /\ graph'[b] = graph[b]
                          /\ IndexOf(b)' = IndexOf(b)]_vars

\* A response that shows a graph shows the empty graph or the whole graph of
\* the session's finished extraction.
WholeGraph(s, nodes, links) ==
    \/ nodes = <<>> /\ links = {}
    \/ /\ extraction[s].state = "finished"
       /\ nodes = GraphNodes(BuildGraph(extraction[s].triples))
       /\ links = GraphLinks(BuildGraph(extraction[s].triples))

\* C6: every read of a session's graph (the responses of /graph, /reset and
\* /upload, the graph context of a chat) sees the empty graph or the whole
\* graph of one finished extraction, never a part of one; while an
\* extraction runs the held graph is empty.
C6_ReadsSeeWholeGraph ==
    /\ (last.op \in {"graph", "reset"} \/ (last.op = "upload" /\ last.status = 200))
           => WholeGraph(last.s, last.nodes, last.links)
    /\ loop.kind = "chat" =>
           \/ loop.context = {}
           \/ /\ extraction[loop.s].state = "finished"
              /\ loop.context = TriplesAsText(BuildGraph(extraction[loop.s].triples))
    /\ \A s \in SessionIds : extraction[s].state = "running" => graph[s] = EmptyGraph

\* C7: chat returns a result (never an error status) with a response and a
\* list of highlighted nodes; when the gateway call failed the response is
\* one of the apology strings and rate_limits is empty.
C7_ChatNeverRaises ==
    last.op = "chat" =>
        /\ last.status = 200
        /\ last.failed => /\ last.response \in {TooLong, RateLimitReached, TechnicalIssue}
                        /\ last.rate_limits = NoRateLimits

---------------------------------------------------------------------------
(* chat's highlighting on any small graph and answer: one session, its     *)
(* chat at the gateway call.                                               *)

HighlightNodes ==
    {"Document", "A", "Acme Labs", "AI of Acme", " Labs ", "R&D", "**", "Rocket Fuel Co"}

HighlightAnswers == ChatAnswers \cup {"AI of Acme is new."}

HighlightCalls ==
    {Call(TRUE, "ok", {}, 500, NoHeaders, FALSE, NoContent)}
    \cup {OkCall(Answer(a)) : a \in HighlightAnswers}

\* A graph with the nodes of a list, in the list's order.
RECURSIVE GraphOfNodes(_)
GraphOfNodes(q) ==
    IF q = <<>> THEN EmptyGraph
    ELSE add_node(GraphOfNodes(SubSeq(q, 1, Len(q) - 1)), q[Len(q)], 1)

\* The graphs of up to MaxNodes nodes, in every order of insertion.
HighlightGraphs ==
    {GraphOfNodes(q) : q \in UNION {[1..k -> HighlightNodes] : k \in 0..MaxNodes}}

InitHighlight ==
    /\ sessions = {"s1"}
    /\ graph \in {[s \in SessionIds |-> IF s = "s1" THEN G ELSE EmptyGraph] :
                     G \in HighlightGraphs}
    /\ latest_uploaded_text = [s \in SessionIds |-> NoText]
    /\ chroma = GetOrCreate(NoCollection)
    /\ collection = [s \in SessionIds |-> IF s = "s1" THEN chroma.id ELSE 0]
    /\ CACHED_RATE_LIMITS = InitialRateLimits
    /\ loop = [IdleLoop EXCEPT !.kind = "chat", !.s = "s1", !.pc = "llm",
                               !.context = TriplesAsText(graph["s1"])]
    /\ pool = [s \in SessionIds |-> IdlePool]
    /\ last = NoResult
    /\ extraction = [s \in SessionIds |-> [state |-> "none", triples |-> <<>>]]
    /\ llm = NoCall
    /\ chunker = IdleChunker

NextHighlight == \E call \in HighlightCalls : ChatFinish(call)

SpecHighlight == InitHighlight /\ [][NextHighlight]_vars

---------------------------------------------------------------------------
(* Claims about highlighting (SpecHighlight).                              *)

\* Rule (a): the lowercased trimmed id is longer than 3 characters and is a
\* substring of the lowercased answer.
RuleA(n, answer) ==
    /\ Len(Strip(Lower(Chars(n)))) > 3
    /\ Contains(Strip(Lower(Chars(n))), Lower(Chars(answer)))

\* Rule (b): of the id's tokens longer than 2 characters, at least half are
\* substrings of the normalized answer; none such, no match.
RuleB(n, answer) ==
    LET long == {t \in Tokens(normalize_text(Chars(n))) : Len(t) > 2}
        found == {t \in long : Contains(t, normalize_text(Chars(answer)))}
    IN  long /= {} /\ 2 * Cardinality(found) >= Cardinality(long)

InSeq(x, q) == \E i \in 1..Len(q) : q[i] = x

\* C11: chat puts a node in highlighted_nodes iff rule (a) or rule (b)
\* holds of its id and the answer, whatever other nodes the graph has.
C11_HighlightRule ==
    (last.op = "chat" /\ last.status = 200) =>
        \A n \in Nodes(graph[last.s]) :
            InSeq(n, last.highlighted_nodes) <=> (RuleA(n, last.response) \/ RuleB(n, last.response))

\* Rule (b) with the share taken of all the id's tokens: the tokens that
\* are longer than 2 characters and substrings of the normalized answer are
\* at least half of the id's tokens.
RuleBOfAllTokens(n, answer) ==
    LET all == Tokens(normalize_text(Chars(n)))
        found == {t \in all : Len(t) > 2 /\ Contains(t, normalize_text(Chars(answer)))}
    IN  all /= {} /\ 2 * Cardinality(found) >= Cardinality(all)

\* C11, amended: chat puts a node in highlighted_nodes iff rule (a) holds,
\* or the id's tokens that are longer than 2 characters and substrings of
\* the normalized answer are at least 50% of all the id's tokens; each node
\* at most once, in the graph's order, whatever other nodes the graph has.
C11_HighlightRuleOfAllTokens ==
    (last.op = "chat" /\ last.status = 200) =>
        /\ \A n \in Nodes(graph[last.s]) :
               InSeq(n, last.highlighted_nodes)
                   <=> (RuleA(n, last.response) \/ RuleBOfAllTokens(n, last.response))
        /\ \A i, j \in 1..Len(last.highlighted_nodes) :
               i < j => Position(graph[last.s], last.highlighted_nodes[i])
                            < Position(graph[last.s], last.highlighted_nodes[j])

\* Witness of C11: an answer naming Acme; "Acme Labs" is highlighted, "AI of
\* Acme" (one token of three found) is not.
C11_Witness ==
    /\ last.op = "chat" /\ last.status = 200
    /\ last.response = "The document says Acme builds rockets."
    /\ Nodes(graph[last.s]) = {"Acme Labs", "AI of Acme"}
    /\ last.highlighted_nodes = <<"Acme Labs">>

---------------------------------------------------------------------------
(* Claims about reset and failed uploads (Spec).                           *)

\* C12: reset empties the session's graph and its last-uploaded text and
\* leaves its retrieval index as it was: no step of a reset request changes
\* what the index holds and returns, and a chat that starts afterwards gets
\* the chunks the index returned before.
C12_ResetKeepsIndex ==
    [][\A s \in sessions :
          /\ (pool[s].op = "reset" /\ pool[s].pc = "clear" /\ pool'[s].pc = "nodes")
                 => /\ graph'[s] = EmptyGraph
                    /\ latest_uploaded_text'[s] = NoText
          /\ (pool'[s] /= pool[s] /\ "reset" \in {pool[s].op, pool'[s].op})
                 => /\ IndexOf(s)' = IndexOf(s)
                    /\ RagQuery(chroma') = RagQuery(chroma)
          /\ (loop.kind = "idle" /\ loop'.kind = "chat" /\ loop'.s = s)
                 => loop'.sources = RagQuery(chroma)]_vars

\* Witness of C12: a chat on a session that was reset after a finished
\* extraction: no text, no graph, and the document's chunks as context.
C12_Witness ==
    /\ loop.kind = "chat"
    /\ extraction[loop.s].state = "finished"
    /\ latest_uploaded_text[loop.s] = NoText
    /\ graph[loop.s] = EmptyGraph
    /\ loop.context = {}
    /\ Len(loop.sources) = 3

\* The upload of session s failed at the extraction in this step.
ExtractionFails(s) ==
    /\ loop.kind = "upload" /\ loop.s = s /\ loop.pc = "llm"
    /\ loop'.kind = "idle"
    /\ last'.op = "upload" /\ last'.status \in {429, 500}

\* C13: an upload whose text was accepted puts the new text in
\* latest_uploaded_text and only the new document's chunks in the index
\* before it extracts; when the extraction then fails, the failure undoes
\* none of it: the index holds only the new document's chunks, the text is
\* the new one (unless a reset of the session ran meanwhile and emptied
\* it), and the graph is empty.
C13_FailedUploadKeepsNewState ==
    [][\A s \in SessionIds :
          /\ (loop.kind = "idle" /\ loop'.kind = "upload" /\ loop'.s = s)
                 => \E d \in Docs :
                        /\ latest_uploaded_text'[s] = TextOf(d)
                        /\ chroma'.docs = ExpectedChunks(TextOf(d), d)
                        /\ Live(chroma', collection'[s])
          /\ ExtractionFails(s)
                 => /\ graph'[s] = EmptyGraph
                    /\ extraction'[s].state = "failed"
                    /\ latest_uploaded_text'[s] = latest_uploaded_text[s]
                    /\ Live(chroma', collection'[s])
                    /\ \E d \in Docs :
                           /\ chroma'.docs = ExpectedChunks(TextOf(d), d)
                           /\ latest_uploaded_text'[s] \in {TextOf(d), NoText}]_vars

\* Witness of C13: the second upload of the only session failed at the
\* gateway: the index holds d2's three chunks, the text is d2's, the graph
\* is empty.
C13_Witness ==
    /\ last.op = "upload" /\ last.status \in {429, 500}
    /\ sessions = {last.s}
    /\ extraction[last.s].state = "failed"
    /\ chroma.id = 3
    /\ chroma.docs = ExpectedChunks(TextOf("d2"), "d2")
    /\ latest_uploaded_text[last.s] = TextOf("d2")
    /\ graph[last.s] = EmptyGraph

====
